---- MODULE Spec2Model ----
(***************************************************************************)
(* CreditDataPipeline (src/src/pipe.py): the fit / transform feature       *)
(* pipeline over a table of customer-month records.                        *)
(*                                                                         *)
(* Representation.                                                         *)
(*   - A table is a sequence of rows; a row is a function from column      *)
(*     names to cells.                                                     *)
(*   - A cell is Null (the empty set) or Some(v) (a singleton).            *)
(*   - A Float64/Int64 value is a fixed-point integer counting quarters:   *)
(*     the input integer n is the cell Some(4*n). Medians of integers are  *)
(*     multiples of 1/2 and medians of their absolute deviations multiples *)
(*     of 1/4, so every statistic of the pipeline is exact.                *)
(*   - A text is a sequence of symbols. In Type_of_Loan a symbol is one    *)
(*     character; in Credit_History_Age the literals " Years and " and     *)
(*     " Months" of the pattern are one symbol each; a categorical value   *)
(*     is one symbol, possibly padded with "_" symbols.                    *)
(***************************************************************************)
EXTENDS Integers, Sequences, FiniteSets, TLC

VARIABLES
    global_medians,   \* self.global_medians
    global_modes,     \* self.global_modes
    cat_mappings,     \* self.cat_mappings
    cols_to_drop,     \* self.cols_to_drop
    train,            \* the table handed to fit
    df,               \* the table handed to transform / fit_transform
    calls,            \* the transform / fit_transform calls that have returned, in order
    df_norm,          \* df_new after the text normalisation   (line 93)
    df_scrub,         \* df_new after casts and negative scrub (line 131)
    df_filt,          \* df_new after the outlier filter       (line 176)
    df_imp,           \* df_new after the imputation           (line 198)
    loan_ind,         \* the loan indicator columns of df_new  (line 234)
    df_out            \* the table transform returned          (line 275)

vars == << global_medians, global_modes, cat_mappings, cols_to_drop, train, df,
           calls, df_norm, df_scrub, df_filt, df_imp, loan_ind, df_out >>

instance == << global_medians, global_modes, cat_mappings, cols_to_drop >>

(***************************************************************************)
(* Bounds of the explored inputs.                                          *)
(***************************************************************************)
MaxRows == 4       \* rows of the first customer in a numeric input table
MaxCalls == 1      \* transform calls on one instance
MaxTextLen == 4    \* characters of a Type_of_Loan text
MaxHistLen == 5    \* symbols of a Credit_History_Age text
MaxCatRows == 2    \* rows of a categorical input table

(***************************************************************************)
(* Cells.                                                                  *)
(***************************************************************************)
Null == {}
Some(v) == {v}
Get(c) == CHOOSE v \in c : TRUE

Abs(x) == IF x < 0 THEN -x ELSE x

Range(s) == {s[i] : i \in 1..Len(s)}

(***************************************************************************)
(* Constructor arguments: the configuration of the instance under study.   *)
(***************************************************************************)
numeric_cols == <<"Num_Bank_Accounts">>
cat_cols == <<"Occupation", "Credit_Mix", "Payment_of_Min_Amount">>
cat_cols_auto_encode == <<"Occupation">>
loan_types == << <<"A">>, <<"A", " ", "L">>, <<"L", "-", "A">> >>

\* __init__: credit_mix_map, payment_map, and the initial cols_to_drop
credit_mix_map == (<<"Bad">> :> 0) @@ (<<"Standard">> :> 1) @@ (<<"Good">> :> 2)
payment_map == (<<"No">> :> 0) @@ (<<"NM">> :> 0) @@ (<<"Yes">> :> 1)
InitColsToDrop == <<"Customer_ID", "Name", "SSN", "Month", "Annual_Income",
                    "Type_of_Loan", "median_age_per_occ">>

MadFactor == 3

(***************************************************************************)
(* Columns of the modelled projection of the input table.                  *)
(***************************************************************************)
StringCols == {"Credit_History_Age", "Type_of_Loan", "Credit_Mix",
               "Payment_of_Min_Amount", "Occupation"}

MedianName(col) == col \o "_median"
AbsDevName(col) == col \o "_abs_dev"
MadName(col) == col \o "_mad"
ModeName(col) == col \o "_mode"

\* df.with_columns([... .alias(Name(c)) for c in C]): every new cell is
\* computed from the row as it was before the call.
WithColumns(tbl, C, Name(_), Val(_, _)) ==
    <<>> \o [i \in 1..Len(tbl) |->
                [n \in {Name(c) : c \in C} |->
                    LET c == CHOOSE c \in C : Name(c) = n IN Val(tbl[i], c)] @@ tbl[i]]

SameName(col) == col

(***************************************************************************)
(* Text normalisation, lines 82-93.                                        *)
(***************************************************************************)
RECURSIVE StripLeft(_)
StripLeft(s) ==
    IF s # <<>> /\ Head(s) = "_" THEN StripLeft(Tail(s)) ELSE s

RECURSIVE StripRight(_)
StripRight(s) ==
    IF s # <<>> /\ s[Len(s)] = "_" THEN StripRight(SubSeq(s, 1, Len(s) - 1)) ELSE s

strip_chars(s) == StripRight(StripLeft(s))

EmptySentinels == {<<>>, <<"_">>, <<"!@9#%8">>}

NormalizeCell(c) ==
    IF c = Null THEN Null
    ELSE LET t == strip_chars(Get(c))
         IN  IF t \in EmptySentinels THEN Null ELSE Some(t)

TextNormalizer(tbl) ==
    WithColumns(tbl, StringCols, SameName, LAMBDA row, col : NormalizeCell(row[col]))

(***************************************************************************)
(* history_to_months, lines 46-60. The pattern is                          *)
(*   (?P<years>\d+) Years and (?P<months>\d+) Months                       *)
(* applied with re.match.                                                  *)
(***************************************************************************)
YearsAnd == " Years and "
Months == " Months"

DigitValue ==
    ("0" :> 0) @@ ("1" :> 1) @@ ("2" :> 2) @@ ("3" :> 3) @@ ("4" :> 4) @@
    ("5" :> 5) @@ ("6" :> 6) @@ ("7" :> 7) @@ ("8" :> 8) @@ ("9" :> 9)

IsDigit(ch) == ch \in DOMAIN DigitValue

\* length of the longest run of digits of s that starts at position p (\d+ is greedy)
RECURSIVE DigitRun(_, _)
DigitRun(s, p) ==
    IF p <= Len(s) /\ IsDigit(s[p]) THEN 1 + DigitRun(s, p + 1) ELSE 0

\* int(text) of a run of decimal digits
RECURSIVE ToInt(_)
ToInt(ds) ==
    IF ds = <<>> THEN 0
    ELSE 10 * ToInt(SubSeq(ds, 1, Len(ds) - 1)) + DigitValue[ds[Len(ds)]]

\* self.pattern.match(s): the groups <<years, months>> when the pattern matches
\* at the start of s, and <<>> otherwise
PatternMatch(s) ==
    LET ny == DigitRun(s, 1)
        nm == DigitRun(s, ny + 2)
    IN  IF /\ ny >= 1
           /\ Len(s) >= ny + 1
           /\ s[ny + 1] = YearsAnd
           /\ nm >= 1
           /\ Len(s) >= ny + 1 + nm + 1
           /\ s[ny + 1 + nm + 1] = Months
        THEN << SubSeq(s, 1, ny), SubSeq(s, ny + 2, ny + 1 + nm) >>
        ELSE <<>>

history_to_months(history) ==
    IF history = Null THEN Null
    ELSE LET match == PatternMatch(Get(history))
         IN  IF match = <<>> THEN Null
             ELSE Some(4 * ((ToInt(match[1]) * 12) + ToInt(match[2])))

(***************************************************************************)
(* Casts and negative scrub, lines 95-131.                                 *)
(***************************************************************************)
Scrub(c) == IF c # Null /\ Get(c) < 0 THEN Null ELSE c

NumericSet == Range(numeric_cols)
CatSet == Range(cat_cols)

TypeCoercer(tbl) ==
    LET parsed == WithColumns(tbl, {"Credit_History_Age"}, SameName,
                              LAMBDA row, col : history_to_months(row[col]))
    IN  WithColumns(parsed, NumericSet \cup {"Credit_History_Age"}, SameName,
                    LAMBDA row, col : Scrub(row[col]))

(***************************************************************************)
(* Group statistics, lines 133-155.                                        *)
(***************************************************************************)
RECURSIVE Insert(_, _)
Insert(x, s) ==
    IF s = <<>> THEN <<x>>
    ELSE IF x <= Head(s) THEN <<x>> \o s
    ELSE <<Head(s)>> \o Insert(x, Tail(s))

RECURSIVE Sort(_)
Sort(s) == IF s = <<>> THEN <<>> ELSE Insert(Head(s), Sort(Tail(s)))

\* Expr.median(): nulls are ignored, no value gives null, an even count gives
\* the mean of the two middle values
Median(vals) ==
    LET s == Sort(vals)
        n == Len(s)
    IN  IF n = 0 THEN Null
        ELSE IF n % 2 = 1 THEN Some(s[(n + 1) \div 2])
        ELSE Some((s[n \div 2] + s[(n \div 2) + 1]) \div 2)

\* the non-null values of column col in the group of customer cid
GroupValues(tbl, col, cid) ==
    LET rows == SelectSeq(tbl, LAMBDA r : r["Customer_ID"] = cid /\ r[col] # Null)
    IN  [i \in 1..Len(rows) |-> Get(rows[i][col])]

GroupMedian(tbl, col, cid) == Median(GroupValues(tbl, col, cid))

JoinMedians(tbl) ==
    WithColumns(tbl, NumericSet, MedianName,
                LAMBDA row, col : GroupMedian(tbl, col, row["Customer_ID"]))

AbsDev(v, med) ==
    IF v = Null \/ med = Null THEN Null ELSE Some(Abs(Get(v) - Get(med)))

AddAbsDev(tbl) ==
    WithColumns(tbl, NumericSet, AbsDevName,
                LAMBDA row, col : AbsDev(row[col], row[MedianName(col)]))

JoinMad(tbl) ==
    WithColumns(tbl, NumericSet, MadName,
                LAMBDA row, col : GroupMedian(tbl, AbsDevName(col), row["Customer_ID"]))

(***************************************************************************)
(* Outlier filter, lines 157-176. A comparison with a null operand is      *)
(* null, and when(null) takes the otherwise branch.                        *)
(***************************************************************************)
\* variant: only the upper side of the band is tested
IsOutlierUpperOnly(v, med, mad) ==
    /\ v # Null /\ med # Null /\ mad # Null
    /\ Get(v) > Get(med) + MadFactor * Get(mad)

\* variant: a zero MAD switches the filter off
IsOutlierSkipZeroMad(v, med, mad) ==
    /\ v # Null /\ med # Null /\ mad # Null /\ Get(mad) # 0
    /\ \/ Get(v) < Get(med) - MadFactor * Get(mad)
       \/ Get(v) > Get(med) + MadFactor * Get(mad)

\* variant: the ends of the band count as outliers
IsOutlierInclusive(v, med, mad) ==
    /\ v # Null /\ med # Null /\ mad # Null
    /\ \/ Get(v) <= Get(med) - MadFactor * Get(mad)
       \/ Get(v) >= Get(med) + MadFactor * Get(mad)

IsOutlier(v, med, mad) ==
    /\ v # Null /\ med # Null /\ mad # Null
    /\ \/ Get(v) < Get(med) - MadFactor * Get(mad)
       \/ Get(v) > Get(med) + MadFactor * Get(mad)

OutlierFilter(tbl) ==
    WithColumns(tbl, NumericSet, SameName,
                LAMBDA row, col :
                    IF IsOutlier(row[col], row[MedianName(col)], row[MadName(col)])
                    THEN Null ELSE row[col])

(***************************************************************************)
(* Imputation, lines 178-198. Expr.mode() returns the most frequent values *)
(* in no specified order, so mode().first() is any one of them.            *)
(***************************************************************************)
Count(vals, v) == Cardinality({i \in 1..Len(vals) : vals[i] = v})

Modes(vals) ==
    {v \in Range(vals) : \A w \in Range(vals) : Count(vals, w) <= Count(vals, v)}

Customers(tbl) == {tbl[i]["Customer_ID"] : i \in 1..Len(tbl)}

\* the results mode().first() can give for column col in the group of cid
FirstModes(tbl, col, cid) ==
    LET m == Modes(GroupValues(tbl, col, cid))
    IN  IF m = {} THEN {Null} ELSE {Some(v) : v \in m}

\* all functions with domain K that take each k to a member of F[k]
RECURSIVE Choices(_, _)
Choices(K, F) ==
    IF K = {} THEN {<<>>}
    ELSE LET k == CHOOSE k \in K : TRUE
         IN  {(k :> v) @@ g : v \in F[k], g \in Choices(K \ {k}, F)}

\* the possible outcomes of cat_imputes: one mode per column and group
CatImputes(tbl) ==
    LET K == CatSet \X Customers(tbl)
    IN  Choices(K, [k \in K |-> FirstModes(tbl, k[1], k[2])])

JoinModes(tbl, pick) ==
    WithColumns(tbl, CatSet, ModeName,
                LAMBDA row, col : pick[<<col, row["Customer_ID"]>>])

coalesce(a, b) == IF a # Null THEN a ELSE b

\* variant: the group median is recomputed from the filtered table
ImputeNumericRecomputed(tbl) ==
    WithColumns(tbl, NumericSet, SameName,
                LAMBDA row, col :
                    coalesce(row[col], GroupMedian(tbl, col, row["Customer_ID"])))

\* variant: the numeric coalesce is missing
ImputeNumericSkipped(tbl) == tbl

ImputeNumeric(tbl) ==
    WithColumns(tbl, NumericSet, SameName,
                LAMBDA row, col : coalesce(row[col], row[MedianName(col)]))

ImputeCategorical(tbl) ==
    WithColumns(tbl, CatSet, SameName,
                LAMBDA row, col : coalesce(row[col], row[ModeName(col)]))

(***************************************************************************)
(* Loan multi-hot encoding, lines 222-234.                                 *)
(***************************************************************************)
Letters == {"A", "L"}

\* \w of the regular expression
IsWordChar(ch) == ch \in Letters \/ IsDigit(ch) \/ ch = "_"

WordAt(s, p) == p >= 1 /\ p <= Len(s) /\ IsWordChar(s[p])

\* \b just before position p of s
WordBoundary(s, p) == WordAt(s, p - 1) # WordAt(s, p)

\* variant: the closing \b is missing
LoanPatternAtNoEnd(s, loan, p) ==
    /\ p + Len(loan) - 1 <= Len(s)
    /\ SubSeq(s, p, p + Len(loan) - 1) = loan
    /\ WordBoundary(s, p)

\* rf"\b{loan}\b" matches s from position p on
LoanPatternAt(s, loan, p) ==
    /\ p + Len(loan) - 1 <= Len(s)
    /\ SubSeq(s, p, p + Len(loan) - 1) = loan
    /\ WordBoundary(s, p)
    /\ WordBoundary(s, p + Len(loan))

str_contains(s, loan) == \E p \in 1..(Len(s) + 1) : LoanPatternAt(s, loan, p)

fill_null(c, v) == IF c = Null THEN Some(v) ELSE c

\* lt.replace('-', '').replace(' ', '_') behind the prefix Loan_
LoanColName(loan) ==
    LET nohyphen == SelectSeq(loan, LAMBDA ch : ch # "-")
    IN  <<"L", "o", "a", "n", "_">> \o
        [i \in 1..Len(nohyphen) |-> IF nohyphen[i] = " " THEN "_" ELSE nohyphen[i]]

LoanSet == Range(loan_types)

FillLoan(tbl) ==
    WithColumns(tbl, {"Type_of_Loan"}, SameName,
                LAMBDA row, col : fill_null(row[col], <<>>))

\* the indicator columns, kept apart from the string-named columns of a row
LoanMultiHot(tbl) ==
    [i \in 1..Len(tbl) |->
        [n \in {LoanColName(l) : l \in LoanSet} |->
            LET l == CHOOSE l \in LoanSet : LoanColName(l) = n
            IN  IF str_contains(Get(tbl[i]["Type_of_Loan"]), l) THEN Some(1) ELSE Some(0)]]

(***************************************************************************)
(* Categorical encoders, lines 236-263. map_elements skips nulls.          *)
(***************************************************************************)
\* variant: an unknown value gets the next free code
MapGetExtending(map, c) ==
    IF c = Null THEN Null
    ELSE IF Get(c) \in DOMAIN map THEN Some(map[Get(c)])
    ELSE Some(Cardinality(DOMAIN map))

MapGet(map, c) ==
    IF c = Null THEN Null
    ELSE IF Get(c) \in DOMAIN map THEN Some(map[Get(c)]) ELSE Null

FixedEncode(tbl) ==
    WithColumns(tbl, {"Credit_Mix", "Payment_of_Min_Amount"}, SameName,
                LAMBDA row, col :
                    MapGet(IF col = "Credit_Mix" THEN credit_mix_map ELSE payment_map,
                           row[col]))

AutoEncode(tbl, mappings) ==
    WithColumns(tbl, DOMAIN mappings, SameName,
                LAMBDA row, col : MapGet(mappings[col], row[col]))

(***************************************************************************)
(* Column pruning, lines 265-275.                                          *)
(***************************************************************************)
RECURSIVE GeneratedNumeric(_)
GeneratedNumeric(cols) ==
    IF cols = <<>> THEN <<>>
    ELSE << MedianName(Head(cols)), MadName(Head(cols)), AbsDevName(Head(cols)) >>
         \o GeneratedNumeric(Tail(cols))

GeneratedCat(cols) == [i \in 1..Len(cols) |-> ModeName(cols[i])]

AppendGenerated(drop) == drop \o GeneratedNumeric(numeric_cols) \o GeneratedCat(cat_cols)

Drop(tbl, drop) ==
    [i \in 1..Len(tbl) |-> [n \in (DOMAIN tbl[i]) \ Range(drop) |-> tbl[i][n]]]

(***************************************************************************)
(* fit, lines 62-77. Series.unique() and Series.mode() return their values *)
(* in no specified order: the enumeration of the unique values is any      *)
(* bijection onto 0..n-1, and global_modes holds the set of modes.         *)
(***************************************************************************)
ColumnValues(tbl, col) ==
    LET rows == SelectSeq(tbl, LAMBDA r : r[col] # Null)
    IN  [i \in 1..Len(rows) |-> Get(rows[i][col])]

FitMedians(tbl) == [col \in NumericSet |-> Median(ColumnValues(tbl, col))]

FitModes(tbl) == [col \in CatSet |-> Modes(ColumnValues(tbl, col))]

\* the dictionaries {v: i for i, v in enumerate(unique_vals)} that can result
Enumerations(U) ==
    {m \in [U -> 0..(Cardinality(U) - 1)] : \A a, b \in U : a # b => m[a] # m[b]}

AutoSet == Range(cat_cols_auto_encode)

Vocabularies(tbl) ==
    Choices(AutoSet, [col \in AutoSet |-> Enumerations(Range(ColumnValues(tbl, col)))])

FitOn(tbl) ==
    /\ global_medians' = FitMedians(tbl)
    /\ global_modes' = FitModes(tbl)
    /\ cat_mappings' \in Vocabularies(tbl)

Fit ==
    /\ FitOn(train)
    /\ UNCHANGED << cols_to_drop, train, df, calls, df_norm, df_scrub, df_filt,
                    df_imp, loan_ind, df_out >>

(***************************************************************************)
(* transform, lines 79-275.                                                *)
(***************************************************************************)
GroupStatistics(tbl) == JoinMad(AddAbsDev(JoinMedians(tbl)))

TransformOn(tbl, mappings) ==
    LET norm  == TextNormalizer(tbl)
        scrub == TypeCoercer(norm)
        filt  == OutlierFilter(GroupStatistics(scrub))
        drop  == AppendGenerated(cols_to_drop)
    IN  \E pick \in CatImputes(filt) :
            LET imp  == ImputeCategorical(ImputeNumeric(JoinModes(filt, pick)))
                loan == FillLoan(imp)
                enc  == AutoEncode(FixedEncode(loan), mappings)
            IN  /\ df_norm' = norm
                /\ df_scrub' = scrub
                /\ df_filt' = filt
                /\ df_imp' = imp
                /\ loan_ind' = LoanMultiHot(loan)
                /\ cols_to_drop' = drop
                /\ df_out' = Drop(enc, drop)

Transform ==
    /\ Len(calls) < MaxCalls
    /\ TransformOn(df, cat_mappings)
    /\ calls' = Append(calls, "transform")
    /\ UNCHANGED << global_medians, global_modes, cat_mappings, train, df >>

\* fit_transform, lines 277-278: self.fit(df).transform(df)
FitTransform ==
    /\ Len(calls) < MaxCalls
    /\ FitOn(df)
    /\ TransformOn(df, cat_mappings')
    /\ calls' = Append(calls, "fit_transform")
    /\ UNCHANGED << train, df >>

Next == Fit \/ Transform \/ FitTransform

(***************************************************************************)
(* Input tables.                                                           *)
(***************************************************************************)
DefaultRow ==
    [Customer_ID |-> 1,
     Num_Bank_Accounts |-> Some(4 * 1),
     Credit_History_Age |-> Some(<<"1", YearsAnd, "2", Months>>),
     Type_of_Loan |-> Null,
     Credit_Mix |-> Some(<<"Good">>),
     Payment_of_Min_Amount |-> Some(<<"Yes">>),
     Occupation |-> Some(<<"Doctor">>)]

TablesOver(rows, n) == UNION {[1..k -> rows] : k \in 1..n}

\* numeric inputs of customer 1: two near values and a far one, or null
NumInputs == {0, 1, 9}

NumCells == {Null} \cup {Some(4 * n) : n \in NumInputs}

NumRow(cid, c) == [DefaultRow EXCEPT !["Customer_ID"] = cid, !["Num_Bank_Accounts"] = c]

\* the records of customer 2: one observation, one negative value, one gap
OtherCustomer == <<NumRow(2, Some(4 * 9)), NumRow(2, Some(4 * (-1))), NumRow(2, Null)>>

\* up to MaxRows records of customer 1, then the records of customer 2
NumTables ==
    {[i \in 1..Len(cs) |-> NumRow(1, cs[i])] \o OtherCustomer :
        cs \in UNION {[1..k -> NumCells] : k \in 0..MaxRows}}

Texts(symbols, n) == UNION {[1..k -> symbols] : k \in 0..n}

HistSymbols == {"1", "2", YearsAnd, Months}

HistTables ==
    {<<[DefaultRow EXCEPT !["Credit_History_Age"] = c]>> :
        c \in {Null} \cup {Some(t) : t \in Texts(HistSymbols, MaxHistLen)}}

LoanSymbols == {"A", "L", " ", "-", "_"}

\* one record with a loan text, then one record of a customer without loans
LoanTables ==
    {<<[DefaultRow EXCEPT !["Type_of_Loan"] = Some(t)],
       [DefaultRow EXCEPT !["Customer_ID"] = 2, !["Type_of_Loan"] = Null]>> :
        t \in Texts(LoanSymbols, MaxTextLen)}

OccupationCells == {Null, Some(<<"Doctor">>), Some(<<"Nurse">>), Some(<<"Doctor", "_">>)}
CreditMixCells == {Null, Some(<<"Bad">>), Some(<<"Standard">>), Some(<<"Good">>),
                   Some(<<"Unknown">>)}
PaymentCells == {Some(<<"No">>), Some(<<"NM">>), Some(<<"Yes">>), Some(<<"Maybe">>)}

\* tables of one customer in which one categorical column varies
CatTablesOf(col, cells) ==
    TablesOver({[DefaultRow EXCEPT ![col] = c] : c \in cells}, MaxCatRows)

CatTables ==
    CatTablesOf("Occupation", OccupationCells)
    \cup CatTablesOf("Credit_Mix", CreditMixCells)
    \cup CatTablesOf("Payment_of_Min_Amount", PaymentCells)

TrainDefault == <<DefaultRow>>

TrainTables ==
    {[i \in 1..Len(occ) |-> [DefaultRow EXCEPT !["Occupation"] = occ[i]]] :
        occ \in { <<Some(<<"Doctor">>)>>,
                  <<Some(<<"Doctor">>), Some(<<"Nurse">>)>>,
                  <<Some(<<"Nurse">>), Null, Some(<<"Doctor", "_">>), Some(<<"Nurse">>)>> }}

(***************************************************************************)
(* Specifications: the state after __init__, one per family of inputs.     *)
(***************************************************************************)
Constructed ==
    /\ global_medians = <<>>
    /\ global_modes = <<>>
    /\ cat_mappings = <<>>
    /\ cols_to_drop = InitColsToDrop
    /\ calls = <<>>
    /\ df_norm = <<>>
    /\ df_scrub = <<>>
    /\ df_filt = <<>>
    /\ df_imp = <<>>
    /\ loan_ind = <<>>
    /\ df_out = <<>>

Init == Constructed /\ train = TrainDefault /\ df \in NumTables
InitHistory == Constructed /\ train = TrainDefault /\ df \in HistTables
InitLoan == Constructed /\ train = TrainDefault /\ df \in LoanTables
InitCategorical == Constructed /\ train \in TrainTables /\ df \in CatTables

Spec == Init /\ [][Next]_vars
SpecHistory == InitHistory /\ [][Next]_vars
SpecLoan == InitLoan /\ [][Next]_vars
SpecCategorical == InitCategorical /\ [][Next]_vars

(***************************************************************************)
(* Properties of the numeric path (specification Spec).                    *)
(***************************************************************************)
Returned == calls # <<>>

\* a step in which a call of transform returns
TransformReturns == calls' = Append(calls, "transform")

RowIds == 1..Len(df_filt)

CustomerOf(i) == df_filt[i]["Customer_ID"]

\* the statistics transform joined to record i for column col
MedianOf(i, col) == df_filt[i][MedianName(col)]
MadOf(i, col) == df_filt[i][MadName(col)]

\* C1: transform leaves every field of the instance as it was: a transform
\* step changes none of global_medians, global_modes, cat_mappings, cols_to_drop.
C1_TransformKeepsInstance == [][TransformReturns => instance' = instance]_vars

\* C2: after the outlier filter, a value that is still non-null in a group
\* whose MAD is non-null lies in [median - 3*mad, median + 3*mad].
C2_RetainedWithinBand ==
    Returned =>
        \A i \in RowIds : \A col \in NumericSet :
            (df_filt[i][col] # Null /\ MadOf(i, col) # Null) =>
                /\ Get(MedianOf(i, col)) - 3 * Get(MadOf(i, col)) <= Get(df_filt[i][col])
                /\ Get(df_filt[i][col]) <= Get(MedianOf(i, col)) + 3 * Get(MadOf(i, col))

\* C2 witness: a group with a positive MAD in which the filter removed one
\* value and kept another that differs from the median.
C2_Witness ==
    /\ Returned
    /\ \E i, j \in RowIds : \E col \in NumericSet :
        /\ CustomerOf(i) = CustomerOf(j)
        /\ MadOf(i, col) # Null /\ Get(MadOf(i, col)) > 0
        /\ df_filt[i][col] # Null /\ df_filt[i][col] # MedianOf(i, col)
        /\ df_scrub[j][col] # Null /\ df_filt[j][col] = Null

\* C3 as stated: with a null or zero MAD the filter changes no value of the group.
C3_NoFilterWhenMadNullOrZero ==
    Returned =>
        \A i \in RowIds : \A col \in NumericSet :
            (MadOf(i, col) = Null \/ MadOf(i, col) = Some(0)) =>
                df_filt[i][col] = df_scrub[i][col]

\* C3 amended: with a null MAD the filter changes no value of the group;
\* with a zero MAD it keeps exactly the values equal to the group median and
\* nulls every other value.
C3_NullMadKeepsZeroMadKeepsMedian ==
    Returned =>
        \A i \in RowIds : \A col \in NumericSet :
            /\ MadOf(i, col) = Null => df_filt[i][col] = df_scrub[i][col]
            /\ MadOf(i, col) = Some(0) =>
                df_filt[i][col] =
                    IF df_scrub[i][col] = MedianOf(i, col) THEN df_scrub[i][col] ELSE Null

\* C3 witness: a group with zero MAD that lost a value and kept another.
C3_Witness ==
    /\ Returned
    /\ \E i, j \in RowIds : \E col \in NumericSet :
        /\ CustomerOf(i) = CustomerOf(j)
        /\ MadOf(i, col) = Some(0)
        /\ df_scrub[i][col] # Null /\ df_filt[i][col] = Null
        /\ df_filt[j][col] # Null

C5_NoNullWhereGroupObserved ==
    Returned =>
        \A i \in RowIds : \A col \in NumericSet :
            GroupValues(df_filt, col, CustomerOf(i)) # <<>> => df_imp[i][col] # Null

\* C5 witness: a null before imputation, in a group with an observation, was filled.
C5_Witness ==
    /\ Returned
    /\ \E i \in RowIds : \E col \in NumericSet :
        /\ df_filt[i][col] = Null
        /\ GroupValues(df_filt, col, CustomerOf(i)) # <<>>
        /\ df_imp[i][col] # Null

\* C10: the outlier filter leaves at least one non-null value in every group
\* that had one before the filter.
C10_FilterNeverEmptiesGroup ==
    Returned =>
        \A cid \in Customers(df_scrub) : \A col \in NumericSet :
            GroupValues(df_scrub, col, cid) # <<>> => GroupValues(df_filt, col, cid) # <<>>

\* C10 witness: a group of even size lost a value to the filter.
C10_Witness ==
    /\ Returned
    /\ \E cid \in Customers(df_scrub) : \E col \in NumericSet :
        /\ Len(GroupValues(df_scrub, col, cid)) % 2 = 0
        /\ Len(GroupValues(df_filt, col, cid)) < Len(GroupValues(df_scrub, col, cid))

(***************************************************************************)
(* Properties of history_to_months (specification SpecHistory).            *)
(***************************************************************************)
\* s is exactly "<N> Years and <M> Months", with ny digits of N and nm of M
HistoryForm(s, ny, nm) ==
    /\ ny >= 1 /\ nm >= 1
    /\ Len(s) = ny + nm + 2
    /\ \A k \in 1..ny : IsDigit(s[k])
    /\ s[ny + 1] = YearsAnd
    /\ \A k \in (ny + 2)..(ny + 1 + nm) : IsDigit(s[k])
    /\ s[Len(s)] = Months

IsHistoryForm(s) == \E ny, nm \in 1..Len(s) : HistoryForm(s, ny, nm)

HistoryMonths(s) ==
    LET ny == CHOOSE ny \in 1..Len(s) : \E nm \in 1..Len(s) : HistoryForm(s, ny, nm)
    IN  ToInt(SubSeq(s, 1, ny)) * 12 + ToInt(SubSeq(s, ny + 2, Len(s) - 1))

\* C6: history_to_months gives N*12 + M exactly for the texts
\* "<N> Years and <M> Months" and null for null and for every other text.
C6_ParsesExactlyTheForm ==
    Returned =>
        \A i \in 1..Len(df_norm) :
            LET h == df_norm[i]["Credit_History_Age"]
                r == df_scrub[i]["Credit_History_Age"]
            IN  IF h # Null /\ IsHistoryForm(Get(h))
                THEN r = Some(4 * HistoryMonths(Get(h)))
                ELSE r = Null

(***************************************************************************)
(* Properties of the loan indicators (specification SpecLoan).             *)
(***************************************************************************)
\* the text the encoder reads: the normalised Type_of_Loan, empty when null
LoanText(i) ==
    IF df_norm[i]["Type_of_Loan"] = Null THEN <<>> ELSE Get(df_norm[i]["Type_of_Loan"])

OccursAt(s, name, p) ==
    p + Len(name) - 1 <= Len(s) /\ SubSeq(s, p, p + Len(name) - 1) = name

\* name occurs in s with no word character next to it on either side
OccursAsWord(s, name) ==
    \E p \in 1..Len(s) :
        /\ OccursAt(s, name, p)
        /\ p = 1 \/ ~IsWordChar(s[p - 1])
        /\ p + Len(name) > Len(s) \/ ~IsWordChar(s[p + Len(name)])

\* C7: every record has exactly one indicator per configured loan type, which
\* is 1 if the type name occurs as a whole word in the record's loan text and
\* 0 otherwise, also for a record without loan text; it is never null.
C7_OneIndicatorPerLoanType ==
    Returned =>
        \A i \in 1..Len(loan_ind) :
            /\ Cardinality(DOMAIN loan_ind[i]) = Len(loan_types)
            /\ DOMAIN loan_ind[i] = {LoanColName(l) : l \in LoanSet}
            /\ \A l \in LoanSet :
                loan_ind[i][LoanColName(l)] =
                    IF OccursAsWord(LoanText(i), l) THEN Some(1) ELSE Some(0)

\* C7 witness: one record in whose text a type is a whole word and another
\* type occurs only inside a longer word, and a record without loan text.
C7_Witness ==
    /\ Returned
    /\ \E i, j \in 1..Len(loan_ind) : \E l, m \in LoanSet :
        /\ loan_ind[i][LoanColName(l)] = Some(1)
        /\ \E p \in 1..Len(LoanText(i)) : OccursAt(LoanText(i), m, p)
        /\ loan_ind[i][LoanColName(m)] = Some(0)
        /\ df[j]["Type_of_Loan"] = Null
        /\ \A n \in LoanSet : loan_ind[j][LoanColName(n)] = Some(0)

(***************************************************************************)
(* Properties of the categorical encoders (specification SpecCategorical). *)
(***************************************************************************)
FirstIndex(vals, v) == CHOOSE i \in 1..Len(vals) : vals[i] = v /\ \A j \in 1..(i - 1) : vals[j] # v

\* the enumeration of the distinct values in the order of their first rows
FirstSeen(vals) ==
    [v \in Range(vals) |->
        Cardinality({w \in Range(vals) : FirstIndex(vals, w) < FirstIndex(vals, v)})]

FirstSeenVocabulary(tbl) == [col \in AutoSet |-> FirstSeen(ColumnValues(tbl, col))]

\* C8: fit numbers the distinct non-null values of an auto-encoded field
\* 0..n-1 in the order they first appear in the rows of the fitted table.
\* (A step that leaves calls alone is a return of fit(train); a step that logs
\* fit_transform has fitted df.)
C8_VocabularyInFirstSeenOrder ==
    [][/\ calls' = calls => cat_mappings' = FirstSeenVocabulary(train)
       /\ calls' = Append(calls, "fit_transform") => cat_mappings' = FirstSeenVocabulary(df)]_vars

CreditMixCode(c) ==
    IF c = Some(<<"Bad">>) THEN Some(0)
    ELSE IF c = Some(<<"Standard">>) THEN Some(1)
    ELSE IF c = Some(<<"Good">>) THEN Some(2)
    ELSE Null

PaymentCode(c) ==
    IF c = Some(<<"No">>) \/ c = Some(<<"NM">>) THEN Some(0)
    ELSE IF c = Some(<<"Yes">>) THEN Some(1)
    ELSE Null

\* the returned table holds the codes of the imputed values under cat_mappings
EncodedAsMapped ==
    \A i \in 1..Len(df_out) :
        /\ df_out[i]["Credit_Mix"] = CreditMixCode(df_imp[i]["Credit_Mix"])
        /\ df_out[i]["Payment_of_Min_Amount"] = PaymentCode(df_imp[i]["Payment_of_Min_Amount"])
        /\ \A col \in DOMAIN cat_mappings :
            df_out[i][col] =
                IF df_imp[i][col] # Null /\ Get(df_imp[i][col]) \in DOMAIN cat_mappings[col]
                THEN Some(cat_mappings[col][Get(df_imp[i][col])])
                ELSE Null

\* C9: every transform encodes Credit_Mix as Bad 0, Standard 1, Good 2,
\* Payment_of_Min_Amount as No 0, NM 0, Yes 1, every other value of the two
\* as null, a value of an auto-encoded field by the mapping of fit and a value
\* that is no key of it as null, and leaves cat_mappings as it was.
C9_EncodersTotalVocabularyFixed ==
    [][/\ calls' # calls => EncodedAsMapped'
       /\ TransformReturns => cat_mappings' = cat_mappings]_vars

\* C9 witness: a fitted vocabulary, and a returned table in which a value
\* outside that vocabulary became null beside encoded fixed-vocabulary fields.
C9_Witness ==
    /\ Returned
    /\ "Occupation" \in DOMAIN cat_mappings
    /\ cat_mappings["Occupation"] # <<>>
    /\ EncodedAsMapped
    /\ \E i \in 1..Len(df_out) :
        /\ df_imp[i]["Occupation"] # Null
        /\ Get(df_imp[i]["Occupation"]) \notin DOMAIN cat_mappings["Occupation"]
        /\ df_out[i]["Occupation"] = Null
        /\ df_out[i]["Credit_Mix"] = Some(2)
        /\ df_out[i]["Payment_of_Min_Amount"] = Some(1)

====
